---- MODULE Spec2Model ----
(***************************************************************************)
(* Model of pool/event.py: the class-level listener registry              *)
(* (_DispatchDescriptor), the instance-level listener collection          *)
(* (_ListenerCollection) and the dispatch handle (_Dispatch).             *)
(*                                                                         *)
(* Python lists are sequences.  A collection's parent_listeners is an     *)
(* alias of the list _clslevel[target_cls]; that list object is created   *)
(* once (defaultdict) and only mutated in place, so the alias is modelled *)
(* as the key target_cls and read through clslevel.                        *)
(***************************************************************************)
EXTENDS Naturals, Sequences, FiniteSets

\* ------------------------------------------------------------------ bounds
MaxLen == 3       \* longest class-level sequence a registration may produce
MaxInst == 3      \* longest instance-owned sequence an update may produce
MaxHist == 4      \* operations recorded in the history variable

\* ---------------------------------------------------------------- universe
Listeners == {"A", "B", "C"}
Events == {"checkout", "connect"}
ClassIds == {"Base", "S1", "S2", "D"}
Handles == {"h1", "h2"}
Threads == {"t1", "t2"}
\* targets that are not classes: instances of an owner class
Instances == {"pool1"}
TypeOf == [i \in Instances |-> "Base"]
\* isinstance(target, type)
IsType(target) == target \in ClassIds
None == "None"

\* The class statements of the program: the bases each class is declared with.
Bases ==
    [c \in ClassIds |->
        CASE c = "Base" -> <<>>
          [] c = "S1" -> <<"Base">>
          [] c = "S2" -> <<"Base">>
          [] c = "D" -> <<"S1", "S2">>]

VARIABLES
    classes,           \* the classes that exist
    subclasses,        \* cls.__subclasses__(): direct subclasses, creation order
    clslevel,          \* _DispatchDescriptor._clslevel, per event and class
    parent_cls,        \* _Dispatch._parent_cls per handle (None: not created)
    parent_listeners,  \* per handle and event: key of the aliased class list
                       \* (None: collection not materialized)
    listeners,         \* _ListenerCollection.listeners
    propagate,         \* _ListenerCollection.propagate
    exec_once,         \* _ListenerCollection._exec_once
    last,              \* the last operation and what it did (found, n: whether
                       \* and how often obj was in the target's own sequence)
    hist,              \* history variable: recorded operations
    pc                 \* per thread: its position in exec_once

vars == <<classes, subclasses, clslevel, parent_cls, parent_listeners,
          listeners, propagate, exec_once, last, hist, pc>>

registry == <<classes, subclasses, clslevel>>
handles == <<parent_cls, parent_listeners, listeners, propagate, exec_once>>

\* ------------------------------------------------------------ list helpers
Range(s) == {s[i] : i \in 1..Len(s)}

Count(x, s) == Cardinality({i \in 1..Len(s) : s[i] = x})

NoDup(s) == \A i, j \in 1..Len(s) : s[i] = s[j] => i = j

\* obj in list
ContainsNever(s, obj) == FALSE
Contains(s, obj) == obj \in Range(s)

\* list.insert(0, obj)
ListInsertBack(s, obj) == Append(s, obj)
ListInsert(s, obj) == <<obj>> \o s

\* list.append(obj)
ListAppend(s, obj) == Append(s, obj)

\* index of the first occurrence of obj in s (obj must occur)
FirstIndex(s, obj) == CHOOSE i \in 1..Len(s) :
                          s[i] = obj /\ \A j \in 1..(i - 1) : s[j] # obj

\* list.remove(obj) on a list that holds obj: the first occurrence goes
ListRemoveHead(s, obj) == Tail(s)
ListRemove(s, obj) ==
    LET i == FirstIndex(s, obj)
    IN  SubSeq(s, 1, i - 1) \o SubSeq(s, i + 1, Len(s))

\* ------------------------------------------------------ subclass traversal
\* stack = [target]; while stack: cls = stack.pop(0);
\*     stack.extend(cls.__subclasses__()); <visit cls>
\* The sequence of visits, a class reachable by two paths being visited twice.
RECURSIVE Walk(_)
Walk(stack) ==
    IF stack = <<>> THEN <<>>
    ELSE <<Head(stack)>> \o Walk(Tail(stack) \o subclasses[Head(stack)])

WalkTargetOnly(target) == <<target>>
Traversal(target) == Walk(<<target>>)

\* _clslevel[cls].insert(0, obj) / .append(obj) at every visit, in order
RECURSIVE InsertAlong(_, _, _)
InsertAlong(order, cl, obj) ==
    IF order = <<>> THEN cl
    ELSE InsertAlong(Tail(order),
                     [cl EXCEPT ![Head(order)] = ListInsert(@, obj)], obj)

\* (an append to the list of every class, whatever the traversal)
AppendAll(order, cl, obj) ==
    [c \in ClassIds |-> IF order = <<>> THEN cl[c] ELSE ListAppend(cl[c], obj)]

RECURSIVE AppendAlong(_, _, _)
AppendAlong(order, cl, obj) ==
    IF order = <<>> THEN cl
    ELSE AppendAlong(Tail(order),
                     [cl EXCEPT ![Head(order)] = ListAppend(@, obj)], obj)

\* (a removal that skips the lists not holding obj, as set.discard would)
RECURSIVE RemoveAlongLenient(_, _, _)
RemoveAlongLenient(order, cl, obj) ==
    IF order = <<>> THEN [cl |-> cl, err |-> "none"]
    ELSE RemoveAlongLenient(
             Tail(order),
             [cl EXCEPT ![Head(order)] =
                 IF Contains(@, obj) THEN ListRemove(@, obj) ELSE @], obj)

\* _clslevel[cls].remove(obj) at every visit; list.remove raises ValueError
\* at the first visited list that does not hold obj, the lists visited
\* before it staying changed.
RECURSIVE RemoveAlong(_, _, _)
RemoveAlong(order, cl, obj) ==
    IF order = <<>> THEN [cl |-> cl, err |-> "none"]
    ELSE IF ~Contains(cl[Head(order)], obj)
         THEN [cl |-> cl, err |-> "ValueError"]
         ELSE RemoveAlong(Tail(order),
                          [cl EXCEPT ![Head(order)] = ListRemove(@, obj)], obj)

\* ------------------------------------------------------------------- Init
NoOp == [op |-> "init", ev |-> None, target |-> None, obj |-> None,
         flag |-> FALSE, found |-> FALSE, n |-> 0, err |-> "none",
         calls |-> <<>>]

Init ==
    /\ classes = {"Base"}
    /\ subclasses = [c \in ClassIds |-> <<>>]
    /\ clslevel = [e \in Events |-> [c \in ClassIds |-> <<>>]]
    /\ parent_cls = [h \in Handles |-> None]
    /\ parent_listeners = [h \in Handles |-> [e \in Events |-> None]]
    /\ listeners = [h \in Handles |-> [e \in Events |-> <<>>]]
    /\ propagate = [h \in Handles |-> [e \in Events |-> {}]]
    /\ exec_once = [h \in Handles |-> [e \in Events |-> FALSE]]
    /\ last = NoOp
    /\ hist = <<>>
    /\ pc = [t \in Threads |-> "idle"]

\* ------------------------------------------------- environment operations
\* A class statement: the new class is added to each base's __subclasses__().
CreateClass(c) ==
    /\ c \notin classes
    /\ \A i \in 1..Len(Bases[c]) : Bases[c][i] \in classes
    /\ classes' = classes \cup {c}
    /\ subclasses' = [b \in ClassIds |->
                         IF b \in Range(Bases[c])
                         THEN Append(subclasses[b], c) ELSE subclasses[b]]
    /\ last' = [NoOp EXCEPT !.op = "class", !.target = c]
    /\ UNCHANGED <<clslevel, handles>>

\* _Dispatch.__init__(_parent_cls): the handle of a new owner instance
CreateHandle(h, c) ==
    /\ parent_cls[h] = None
    /\ c \in classes
    /\ parent_cls' = [parent_cls EXCEPT ![h] = c]
    /\ last' = [NoOp EXCEPT !.op = "handle", !.target = h, !.obj = c]
    /\ UNCHANGED <<registry, parent_listeners, listeners, propagate, exec_once>>

\* --------------------------------------------- class-level registry (4.1)
Fits(order, cl) ==
    \A c \in Range(order) : Len(cl[c]) + Count(c, order) <= MaxLen

\* _DispatchDescriptor.insert(obj, target, propagate); the assert on the
\* target comes first.
DescInsert(e, obj, target) ==
    /\ IF ~IsType(target)
       THEN /\ last' = [NoOp EXCEPT !.op = "cls_insert", !.ev = e,
                                    !.target = target, !.obj = obj,
                                    !.err = "AssertionError"]
            /\ UNCHANGED clslevel
       ELSE /\ target \in classes
            /\ Fits(Traversal(target), clslevel[e])
            /\ clslevel' = [clslevel EXCEPT
                               ![e] = InsertAlong(Traversal(target), @, obj)]
            /\ last' = [NoOp EXCEPT !.op = "cls_insert", !.ev = e,
                                    !.target = target, !.obj = obj]
    /\ UNCHANGED <<classes, subclasses, handles>>

\* _DispatchDescriptor.append(obj, target, propagate), without the assert:
\* the listener is registered on the class of the instance.
DescAppendOnTypeOf(e, obj, target) ==
    LET cls == IF IsType(target) THEN target ELSE TypeOf[target]
    IN  /\ cls \in classes
        /\ Fits(Traversal(cls), clslevel[e])
        /\ clslevel' = [clslevel EXCEPT
                           ![e] = AppendAlong(Traversal(cls), @, obj)]
        /\ last' = [NoOp EXCEPT !.op = "cls_append", !.ev = e,
                                !.target = target, !.obj = obj]
        /\ UNCHANGED <<classes, subclasses, handles>>

\* _DispatchDescriptor.append(obj, target, propagate); the assert on the
\* target comes first.
DescAppend(e, obj, target) ==
    /\ IF ~IsType(target)
       THEN /\ last' = [NoOp EXCEPT !.op = "cls_append", !.ev = e,
                                    !.target = target, !.obj = obj,
                                    !.err = "AssertionError"]
            /\ UNCHANGED clslevel
       ELSE /\ target \in classes
            /\ Fits(Traversal(target), clslevel[e])
            /\ clslevel' = [clslevel EXCEPT
                               ![e] = AppendAlong(Traversal(target), @, obj)]
            /\ last' = [NoOp EXCEPT !.op = "cls_append", !.ev = e,
                                    !.target = target, !.obj = obj]
    /\ UNCHANGED <<classes, subclasses, handles>>

\* _DispatchDescriptor.remove(obj, target)
DescRemove(e, obj, target) ==
    /\ target \in classes
    /\ LET r == RemoveAlong(Traversal(target), clslevel[e], obj)
       IN  /\ clslevel' = [clslevel EXCEPT ![e] = r.cl]
           /\ last' = [NoOp EXCEPT !.op = "cls_remove", !.ev = e,
                                   !.target = target, !.obj = obj,
                                   !.n = Count(obj, clslevel[e][target]),
                                   !.err = r.err]
    /\ UNCHANGED <<classes, subclasses, handles>>

\* _DispatchDescriptor.clear()
DescClear(e) ==
    /\ clslevel' = [clslevel EXCEPT ![e] = [c \in ClassIds |-> <<>>]]
    /\ last' = [NoOp EXCEPT !.op = "cls_clear", !.ev = e]
    /\ UNCHANGED <<classes, subclasses, handles>>

\* ------------------------------------- instance-level collection (4.2)
\* _DispatchDescriptor.__get__: the first access of handle.<event> creates
\* the collection with parent_listeners = _clslevel[obj._parent_cls].
MaterializedAtRoot(h, e) ==
    [parent_listeners EXCEPT ![h][e] = IF @ = None THEN "Base" ELSE @]

Materialized(h, e) ==
    [parent_listeners EXCEPT ![h][e] = IF @ = None THEN parent_cls[h] ELSE @]

\* _ListenerCollection.__call__: the listeners in invocation order, each
\* tagged with the list it was taken from.
Tag(tier, s) == [i \in 1..Len(s) |-> [tier |-> tier, fn |-> s[i]]]

CallOrderInstFirst(pl, own) == Tag("inst", own) \o Tag("class", pl)
CallOrder(pl, own) == Tag("class", pl) \o Tag("inst", own)

Fns(calls) == [i \in 1..Len(calls) |-> calls[i].fn]
Tier(calls, tier) == Fns(SelectSeq(calls, LAMBDA x : x.tier = tier))

\* The invocations made when the failAt-th invoked listener raises
\* (failAt = 0: no listener raises).
InvokedAll(order, failAt) == order

Invoked(order, failAt) ==
    IF failAt = 0 THEN order ELSE SubSeq(order, 1, failAt)

Raised(failAt) == IF failAt = 0 THEN "none" ELSE "raised"

\* collection(*args)
Call(h, e, failAt) ==
    /\ parent_cls[h] # None
    /\ parent_listeners' = Materialized(h, e)
    /\ LET order == CallOrder(clslevel[e][parent_listeners'[h][e]],
                              listeners[h][e])
       IN  /\ failAt \in 0..Len(order)
           /\ last' = [NoOp EXCEPT !.op = "call", !.ev = e, !.target = h,
                                   !.err = Raised(failAt), !.n = failAt,
                                   !.calls = Invoked(order, failAt)]
    /\ UNCHANGED <<registry, parent_cls, listeners, propagate, exec_once>>

\* collection.exec_once(*args): the flag is set after the call returns, so
\* a call that raises leaves it unset.
ExecOnce(h, e, failAt) ==
    /\ parent_cls[h] # None
    /\ parent_listeners' = Materialized(h, e)
    /\ LET order == CallOrder(clslevel[e][parent_listeners'[h][e]],
                              listeners[h][e])
       IN  IF ~exec_once[h][e]
           THEN /\ failAt \in 0..Len(order)
                /\ last' = [NoOp EXCEPT !.op = "exec_once", !.ev = e,
                                        !.target = h, !.flag = TRUE,
                                        !.err = Raised(failAt),
                                        !.calls = Invoked(order, failAt)]
                /\ exec_once' = [exec_once EXCEPT
                                    ![h][e] = (failAt = 0)]
           ELSE /\ failAt = 0
                /\ last' = [NoOp EXCEPT !.op = "exec_once", !.ev = e,
                                        !.target = h]
                /\ UNCHANGED exec_once
    /\ UNCHANGED <<registry, parent_cls, listeners, propagate>>

\* exec_once run by thread t, one step per point at which another thread
\* can be scheduled: the test of the flag, the call, the assignment.
\* pc: idle -> passed -> called -> done, idle -> skipped (flag was set),
\* passed -> failed (a listener raised).
OnceGuardAtomic(t, h, e) ==
    /\ pc[t] = "idle"
    /\ parent_cls[h] # None
    /\ parent_listeners' = Materialized(h, e)
    /\ pc' = [pc EXCEPT ![t] = IF exec_once[h][e] THEN "skipped"
                                                  ELSE "passed"]
    /\ exec_once' = [exec_once EXCEPT ![h][e] = TRUE]
    /\ last' = [NoOp EXCEPT !.op = "once_guard", !.ev = e, !.target = h,
                            !.obj = t, !.flag = ~exec_once[h][e]]
    /\ UNCHANGED <<registry, parent_cls, listeners, propagate>>

OnceGuard(t, h, e) ==
    /\ pc[t] = "idle"
    /\ parent_cls[h] # None
    /\ parent_listeners' = Materialized(h, e)
    /\ pc' = [pc EXCEPT ![t] = IF exec_once[h][e] THEN "skipped"
                                                  ELSE "passed"]
    /\ last' = [NoOp EXCEPT !.op = "once_guard", !.ev = e, !.target = h,
                            !.obj = t, !.flag = ~exec_once[h][e]]
    /\ UNCHANGED <<registry, parent_cls, listeners, propagate, exec_once>>

OnceCall(t, h, e, failAt) ==
    /\ pc[t] = "passed"
    /\ parent_listeners[h][e] # None
    /\ LET order == CallOrder(clslevel[e][parent_listeners[h][e]],
                              listeners[h][e])
       IN  /\ failAt \in 0..Len(order)
           /\ last' = [NoOp EXCEPT !.op = "once_call", !.ev = e,
                                   !.target = h, !.obj = t,
                                   !.err = Raised(failAt), !.n = failAt,
                                   !.calls = Invoked(order, failAt)]
    /\ pc' = [pc EXCEPT ![t] = IF failAt = 0 THEN "called" ELSE "failed"]
    /\ UNCHANGED <<registry, handles>>

OnceSet(t, h, e) ==
    /\ pc[t] = "called"
    /\ exec_once' = [exec_once EXCEPT ![h][e] = TRUE]
    /\ pc' = [pc EXCEPT ![t] = "done"]
    /\ last' = [NoOp EXCEPT !.op = "once_set", !.ev = e, !.target = h,
                            !.obj = t]
    /\ UNCHANGED <<registry, parent_cls, parent_listeners, listeners,
                   propagate>>

\* collection.insert(obj, target, propagate)
CollInsert(h, e, obj, prop) ==
    /\ parent_cls[h] # None
    /\ parent_listeners' = Materialized(h, e)
    /\ IF ~Contains(listeners[h][e], obj)
       THEN /\ listeners' = [listeners EXCEPT ![h][e] = ListInsert(@, obj)]
            /\ propagate' = [propagate EXCEPT
                                ![h][e] = IF prop THEN @ \cup {obj} ELSE @]
       ELSE UNCHANGED <<listeners, propagate>>
    /\ last' = [NoOp EXCEPT !.op = "inst_insert", !.ev = e, !.target = h,
                            !.obj = obj, !.flag = prop,
                            !.found = Contains(listeners[h][e], obj)]
    /\ UNCHANGED <<registry, parent_cls, exec_once>>

\* collection.append(obj, target, propagate)
CollAppend(h, e, obj, prop) ==
    /\ parent_cls[h] # None
    /\ parent_listeners' = Materialized(h, e)
    /\ IF ~Contains(listeners[h][e], obj)
       THEN /\ listeners' = [listeners EXCEPT ![h][e] = ListAppend(@, obj)]
            /\ propagate' = [propagate EXCEPT
                                ![h][e] = IF prop THEN @ \cup {obj} ELSE @]
       ELSE UNCHANGED <<listeners, propagate>>
    /\ last' = [NoOp EXCEPT !.op = "inst_append", !.ev = e, !.target = h,
                            !.obj = obj, !.flag = prop,
                            !.found = Contains(listeners[h][e], obj)]
    /\ UNCHANGED <<registry, parent_cls, exec_once>>

\* collection.remove(obj, target) as the claim C9 has it: list.remove
\* without the membership guard
CollRemoveStrict(h, e, obj) ==
    /\ parent_cls[h] # None
    /\ parent_listeners' = Materialized(h, e)
    /\ IF Contains(listeners[h][e], obj)
       THEN /\ listeners' = [listeners EXCEPT ![h][e] = ListRemove(@, obj)]
            /\ propagate' = [propagate EXCEPT ![h][e] = @ \ {obj}]
       ELSE UNCHANGED <<listeners, propagate>>
    /\ last' = [NoOp EXCEPT !.op = "inst_remove", !.ev = e, !.target = h,
                            !.obj = obj,
                            !.n = Count(obj, listeners[h][e]),
                            !.found = Contains(listeners[h][e], obj),
                            !.err = IF Contains(listeners[h][e], obj)
                                    THEN "none" ELSE "ValueError"]
    /\ UNCHANGED <<registry, parent_cls, exec_once>>

\* collection.remove(obj, target): guarded by "if obj in self.listeners"
CollRemove(h, e, obj) ==
    /\ parent_cls[h] # None
    /\ parent_listeners' = Materialized(h, e)
    /\ IF Contains(listeners[h][e], obj)
       THEN /\ listeners' = [listeners EXCEPT ![h][e] = ListRemove(@, obj)]
            /\ propagate' = [propagate EXCEPT ![h][e] = @ \ {obj}]
       ELSE UNCHANGED <<listeners, propagate>>
    /\ last' = [NoOp EXCEPT !.op = "inst_remove", !.ev = e, !.target = h,
                            !.obj = obj,
                            !.n = Count(obj, listeners[h][e]),
                            !.found = Contains(listeners[h][e], obj)]
    /\ UNCHANGED <<registry, parent_cls, exec_once>>

\* collection.clear()
CollClearListenersOnly(h, e) ==
    /\ parent_cls[h] # None
    /\ parent_listeners' = Materialized(h, e)
    /\ listeners' = [listeners EXCEPT ![h][e] = <<>>]
    /\ last' = [NoOp EXCEPT !.op = "inst_clear", !.ev = e, !.target = h,
                            !.n = Len(listeners[h][e])]
    /\ UNCHANGED <<registry, parent_cls, propagate, exec_once>>

CollClear(h, e) ==
    /\ parent_cls[h] # None
    /\ parent_listeners' = Materialized(h, e)
    /\ listeners' = [listeners EXCEPT ![h][e] = <<>>]
    /\ propagate' = [propagate EXCEPT ![h][e] = {}]
    /\ last' = [NoOp EXCEPT !.op = "inst_clear", !.ev = e, !.target = h,
                            !.n = Len(listeners[h][e])]
    /\ UNCHANGED <<registry, parent_cls, exec_once>>

\* _ListenerCollection._update(other, only_propagate): the propagate set
\* after self.propagate.update(other.propagate)
UpdatedPropagate(selfProp, otherProp) == selfProp \cup otherProp

\* the condition of the list comprehension; "and" binds tighter than "or":
\*   (l not in existing_listener_set and not only_propagate)
\*       or l in self.propagate
CopiedNewUnfiltered(l, existing, prop, only_propagate) ==
    l \notin existing /\ ~only_propagate

Copied(l, existing, prop, only_propagate) ==
    (l \notin existing /\ ~only_propagate) \/ l \in prop

\* the listeners after existing_listeners.extend([...])
UpdatedListeners(selfLs, selfProp, otherLs, otherProp, only_propagate) ==
    LET existing == Range(selfLs)
        prop == UpdatedPropagate(selfProp, otherProp)
    IN  selfLs \o SelectSeq(otherLs,
                    LAMBDA l : Copied(l, existing, prop, only_propagate))

\* _Dispatch._update(other, only_propagate): every event's collection of
\* self is updated from the collection of the same name of other; getattr
\* materializes both.
DispatchUpdate(h, o, only_propagate) ==
    /\ h # o
    /\ parent_cls[h] # None
    /\ parent_cls[o] # None
    /\ LET new == [e \in Events |->
                      UpdatedListeners(listeners[h][e], propagate[h][e],
                                       listeners[o][e], propagate[o][e],
                                       only_propagate)]
       IN  /\ \A e \in Events : Len(new[e]) <= MaxInst
           /\ listeners' = [listeners EXCEPT ![h] = new]
    /\ propagate' = [propagate EXCEPT
                        ![h] = [e \in Events |->
                                   UpdatedPropagate(propagate[h][e],
                                                    propagate[o][e])]]
    /\ parent_listeners' =
           [x \in Handles |->
               IF x \in {h, o}
               THEN [e \in Events |->
                        IF parent_listeners[x][e] = None
                        THEN parent_cls[x] ELSE parent_listeners[x][e]]
               ELSE parent_listeners[x]]
    /\ last' = [NoOp EXCEPT !.op = "update", !.target = h, !.obj = o,
                            !.flag = only_propagate]
    /\ UNCHANGED <<registry, parent_cls, exec_once>>

\* ------------------------------------------------- reconstruction (4.3)
\* _Dispatch.__reduce__ carries only self._parent_cls; _UnpickleDispatch
\* finds the dispatch class through the owner class's ancestors (every
\* class here descends from Base, which declares the dispatcher) and
\* returns dispatch_cls(_parent_cls): a new handle g whose collections are
\* yet to be materialized.
ReconstructCarrying(h, g) ==
    /\ h # g
    /\ parent_cls[h] # None
    /\ parent_cls[g] = None
    /\ parent_cls' = [parent_cls EXCEPT ![g] = parent_cls[h]]
    /\ listeners' = [listeners EXCEPT ![g] = listeners[h]]
    /\ propagate' = [propagate EXCEPT ![g] = propagate[h]]
    /\ last' = [NoOp EXCEPT !.op = "reconstruct", !.target = g, !.obj = h]
    /\ UNCHANGED <<registry, parent_listeners, exec_once>>

Reconstruct(h, g) ==
    /\ h # g
    /\ parent_cls[h] # None
    /\ parent_cls[g] = None
    /\ parent_cls' = [parent_cls EXCEPT ![g] = parent_cls[h]]
    /\ last' = [NoOp EXCEPT !.op = "reconstruct", !.target = g, !.obj = h]
    /\ UNCHANGED <<registry, parent_listeners, listeners, propagate,
                   exec_once>>

\* ----------------------------------------------------- history variable
Traced(A) == A /\ Len(hist) < MaxHist /\ hist' = Append(hist, last')
Logged(A) == Traced(A) /\ UNCHANGED pc
Quiet(A) == A /\ UNCHANGED <<hist, pc>>

\* ------------------------------------------------------ the whole program
\* Every operation with every input; the specifications below restrict it
\* to the operations and inputs a property is about.
Next ==
    \/ \E c \in ClassIds : Quiet(CreateClass(c))
    \/ \E h \in Handles, c \in ClassIds : Quiet(CreateHandle(h, c))
    \/ \E e \in Events, obj \in Listeners, c \in ClassIds :
           Quiet(DescInsert(e, obj, c))
    \/ \E e \in Events, obj \in Listeners, c \in ClassIds :
           Quiet(DescAppend(e, obj, c))
    \/ \E e \in Events, obj \in Listeners, c \in ClassIds :
           Quiet(DescRemove(e, obj, c))
    \/ \E e \in Events : Quiet(DescClear(e))
    \/ \E h \in Handles, e \in Events, obj \in Listeners, p \in BOOLEAN :
           Quiet(CollInsert(h, e, obj, p))
    \/ \E h \in Handles, e \in Events, obj \in Listeners, p \in BOOLEAN :
           Quiet(CollAppend(h, e, obj, p))
    \/ \E h \in Handles, e \in Events, obj \in Listeners :
           Quiet(CollRemove(h, e, obj))
    \/ \E h \in Handles, e \in Events : Quiet(CollClear(h, e))
    \/ \E h, o \in Handles, p \in BOOLEAN : Quiet(DispatchUpdate(h, o, p))
    \/ \E h, g \in Handles : Quiet(Reconstruct(h, g))
    \/ \E t \in Threads : OnceGuard(t, "h1", "checkout") /\ UNCHANGED hist
    \/ \E t \in Threads, f \in 0..(MaxLen + MaxInst) :
           OnceCall(t, "h1", "checkout", f) /\ UNCHANGED hist
    \/ \E t \in Threads : OnceSet(t, "h1", "checkout") /\ UNCHANGED hist
    \/ \E h \in Handles, e \in Events, f \in 0..(MaxLen + MaxInst) :
           Quiet(Call(h, e, f))
    \/ \E h \in Handles, e \in Events, f \in 0..(MaxLen + MaxInst) :
           Quiet(ExecOnce(h, e, f))

Spec == Init /\ [][Next]_vars

\* ------------------------------------------------ specification: ordering
\* Class-level insert and append on one class and one event, and dispatch.
NextOrder ==
    \/ \E obj \in Listeners : Logged(DescInsert("checkout", obj, "Base"))
    \/ \E obj \in Listeners : Logged(DescAppend("checkout", obj, "Base"))
    \/ Quiet(CreateHandle("h1", "Base"))
    \/ \E f \in 0..MaxLen : Quiet(Call("h1", "checkout", f))

SpecOrder == Init /\ [][NextOrder]_vars

\* The sequence that a history of insert and append calls on class c and
\* event e builds: insert puts at the front, append at the back.
RECURSIVE Built(_, _, _)
Built(h, e, c) ==
    IF h = <<>> THEN <<>>
    ELSE LET r == h[Len(h)]
             s == Built(SubSeq(h, 1, Len(h) - 1), e, c)
         IN  IF r.ev = e /\ r.target = c /\ r.op = "cls_insert"
             THEN <<r.obj>> \o s
             ELSE IF r.ev = e /\ r.target = c /\ r.op = "cls_append"
                  THEN s \o <<r.obj>>
                  ELSE s

\* C1: after any sequence of class-level insert and append calls on one
\* class and event, a dispatch on an instance of the class invokes the
\* class-level listeners in the order those calls built (front for insert,
\* back for append); a dispatch stopped by a raising listener has invoked a
\* prefix of it.  append(A), append(B), insert(C) gives C, A, B.
C1_OrderOfDispatch ==
    last.op = "call" =>
        LET built == Built(hist, last.ev, parent_cls[last.target])
            got == Tier(last.calls, "class")
        IN  /\ last.err = "none" => got = built
            /\ Len(got) <= Len(built)
            /\ got = SubSeq(built, 1, Len(got))

C1_Witness ==
    /\ last.op = "call"
    /\ last.err = "none"
    /\ Len(hist) = 3
    /\ hist[1].op = "cls_append" /\ hist[1].obj = "A"
    /\ hist[2].op = "cls_append" /\ hist[2].obj = "B"
    /\ hist[3].op = "cls_insert" /\ hist[3].obj = "C"
    /\ Fns(last.calls) = <<"C", "A", "B">>

\* --------------------------------------------- specification: two tiers
\* Class-level and instance-level registrations in any order, and dispatch.
\* the listeners registered in this specification
TierFns == {"A", "B"}

NextTier ==
    \/ \E obj \in TierFns : Quiet(DescInsert("checkout", obj, "Base"))
    \/ \E obj \in TierFns : Quiet(DescAppend("checkout", obj, "Base"))
    \/ Quiet(CreateHandle("h1", "Base"))
    \/ \E obj \in TierFns, p \in BOOLEAN :
           Quiet(CollInsert("h1", "checkout", obj, p))
    \/ \E obj \in TierFns, p \in BOOLEAN :
           Quiet(CollAppend("h1", "checkout", obj, p))
    \/ \E f \in 0..(MaxLen + MaxInst) : Quiet(Call("h1", "checkout", f))

SpecTier == Init /\ [][NextTier]_vars

\* s is a prefix of t
IsPrefix(s, t) == Len(s) <= Len(t) /\ s = SubSeq(t, 1, Len(s))

\* C2: in one dispatch every class-level listener of the owner's class is
\* invoked before any instance-level listener, and each tier is invoked in
\* its own sequence order: a dispatch in which no listener raises invokes
\* the class sequence and then the instance sequence.
C2_ClassTierFirst ==
    last.op = "call" =>
        LET h == last.target
            e == last.ev
            c == last.calls
        IN  /\ \A i, j \in 1..Len(c) :
                   c[i].tier = "class" /\ c[j].tier = "inst" => i < j
            /\ IsPrefix(Tier(c, "class"), clslevel[e][parent_cls[h]])
            /\ IsPrefix(Tier(c, "inst"), listeners[h][e])
            /\ last.err = "none" =>
                   Fns(c) = clslevel[e][parent_cls[h]] \o listeners[h][e]

\* an instance-level listener registered before the class-level ones
C2_Witness ==
    /\ last.op = "call"
    /\ last.err = "none"
    /\ Len(clslevel["checkout"]["Base"]) = 2
    /\ Len(listeners["h1"]["checkout"]) = 2
    /\ Len(last.calls) = 4
    /\ last.calls[2].tier = "class"
    /\ last.calls[3].tier = "inst"

\* ------------------------------------------------ specification: exec_once
\* Listeners registered on either tier; every exec_once call is recorded.
NextOnce ==
    \/ \E obj \in TierFns : Quiet(DescAppend("checkout", obj, "Base"))
    \/ Quiet(CreateHandle("h1", "Base"))
    \/ Quiet(CollAppend("h1", "checkout", "C", FALSE))
    \/ \E f \in 0..(MaxLen + 1) : Logged(ExecOnce("h1", "checkout", f))

SpecOnce == Init /\ [][NextOnce]_vars

\* C3: of the exec_once calls made on one collection only the first one
\* runs listeners; every later call invokes nothing, whatever the outcome
\* of the first call was (a listener of it having raised included).
C3_OnlyFirstExecOnceRuns ==
    \A i, j \in 1..Len(hist) :
        (/\ i < j
         /\ hist[i].op = "exec_once" /\ hist[j].op = "exec_once"
         /\ hist[i].target = hist[j].target /\ hist[i].ev = hist[j].ev)
        => hist[j].calls = <<>>

\* the same for the calls that follow a first call in which nothing raised
C3_AfterReturnedCallNoRun ==
    \A i, j \in 1..Len(hist) :
        (/\ i < j
         /\ hist[i].op = "exec_once" /\ hist[j].op = "exec_once"
         /\ hist[i].target = hist[j].target /\ hist[i].ev = hist[j].ev
         /\ hist[i].flag /\ hist[i].err = "none")
        => hist[j].calls = <<>>

\* ------------------------------------- specification: one collection
\* Instance-level insert, append, remove and clear on the collection of one
\* handle and event, and dispatch; nothing is registered at class level.
NextInst ==
    \/ Quiet(CreateHandle("h1", "Base"))
    \/ \E obj \in Listeners, p \in BOOLEAN :
           Quiet(CollInsert("h1", "checkout", obj, p))
    \/ \E obj \in Listeners, p \in BOOLEAN :
           Quiet(CollAppend("h1", "checkout", obj, p))
    \/ \E obj \in Listeners : Quiet(CollRemove("h1", "checkout", obj))
    \/ Quiet(CollClear("h1", "checkout"))
    \/ \E f \in 0..MaxInst : Quiet(Call("h1", "checkout", f))

SpecInst == Init /\ [][NextInst]_vars

\* the instance-owned sequence holds no listener twice
InstNoDup == \A h \in Handles, e \in Events : NoDup(listeners[h][e])

\* an insert or append of a listener the sequence holds changes nothing
ReAddIsNoOp ==
    (/\ last'.op \in {"inst_insert", "inst_append"}
     /\ last'.obj \in Range(listeners[last'.target][last'.ev]))
    => listeners' = listeners /\ propagate' = propagate

\* a dispatch in which nothing raises invokes every listener of the
\* instance-owned sequence exactly once
InvokedOnce ==
    (last.op = "call" /\ last.err = "none") =>
        \A l \in Range(listeners[last.target][last.ev]) :
            Count(l, Fns(last.calls)) = 1

\* C4: in every state reached by instance-level insert, append, remove and
\* clear calls on one collection the instance-owned sequence holds each
\* listener at most once, an insert or append of a listener already in it
\* leaves the sequence unchanged, and a dispatch invokes each listener of
\* it exactly once.
C4_InstanceDedup == [](InstNoDup /\ InvokedOnce) /\ [][ReAddIsNoOp]_vars

\* append of a listener that was in the sequence, not at its end
C4_Witness ==
    /\ last.op = "inst_append"
    /\ last.found
    /\ Len(listeners["h1"]["checkout"]) = 3
    /\ listeners["h1"]["checkout"][1] = last.obj

C4_WitnessDispatch ==
    /\ last.op = "call"
    /\ last.err = "none"
    /\ Len(last.calls) = 3

\* C9 as claimed: an instance-level remove of a callback that is not among
\* the instance's listeners for the event fails with the not-found error.
C9_RemoveAbsentFails ==
    (last.op = "inst_remove" /\ ~last.found) => last.err = "ValueError"

\* C9: an instance-level remove of a callback that is not among the
\* instance's listeners for the event raises nothing and leaves the
\* instance-owned sequence and the propagate set as they were.
C9_RemoveAbsentIsNoOp ==
    [][(/\ last'.op = "inst_remove"
        /\ last'.obj \notin Range(listeners[last'.target][last'.ev]))
       => /\ last'.err = "none"
          /\ ~last'.found
          /\ listeners' = listeners
          /\ propagate' = propagate]_vars

\* a remove of a listener never added, from a sequence holding others
C9_Witness ==
    /\ last.op = "inst_remove"
    /\ ~last.found
    /\ last.err = "none"
    /\ listeners["h1"]["checkout"] # <<>>

\* --------------------------------------------------- specification: merge
\* Two handles of one class; listeners appended to either, flagged or not,
\* and the state of one handle merged into the other.
NextUpdate ==
    \/ \E h \in Handles : Quiet(CreateHandle(h, "Base"))
    \/ \E h \in Handles, obj \in TierFns, p \in BOOLEAN :
           Quiet(CollAppend(h, "checkout", obj, p))
    \/ \E h \in Handles, obj \in TierFns : Quiet(CollRemove(h, "checkout", obj))
    \/ \E h, o \in Handles, p \in BOOLEAN : Quiet(DispatchUpdate(h, o, p))

SpecUpdate == Init /\ [][NextUpdate]_vars

\* the listeners of sequence s that satisfy Keep, in order
Those(s, Keep(_)) == SelectSeq(s, Keep)

\* C5: update(other, onlyPropagate = true) appends to the instance-owned
\* sequence exactly the listeners of other's instance-owned sequence that
\* are in other's propagate set and not yet in this sequence; a listener
\* already present is not added again and an unflagged one is not copied.
C5_OnlyPropagateCopiesFlaggedNew ==
    [][(last'.op = "update" /\ last'.flag) =>
          LET h == last'.target
              o == last'.obj
          IN  \A e \in Events :
                  listeners'[h][e] =
                      listeners[h][e] \o
                      Those(listeners[o][e],
                            LAMBDA l : /\ l \in propagate[o][e]
                                       /\ l \notin Range(listeners[h][e]))
      ]_vars

\* C6: update(other, onlyPropagate = false) appends every listener of
\* other's instance-owned sequence that is not yet in this sequence, flagged
\* or not, and none that is; afterwards no listener is in it twice.
C6_FullUpdateCopiesNewOnly ==
    [][(last'.op = "update" /\ ~last'.flag) =>
          LET h == last'.target
              o == last'.obj
          IN  \A e \in Events :
                  /\ listeners'[h][e] =
                         listeners[h][e] \o
                         Those(listeners[o][e],
                               LAMBDA l : l \notin Range(listeners[h][e]))
                  /\ NoDup(listeners'[h][e])
      ]_vars

\* ------------------------------------------------- specification: removal
\* Listeners appended and removed at class level (on a class and on its
\* subclass) and at instance level, every such call recorded, and dispatch.
RemoveClasses == {"Base", "S1"}

NextRemove ==
    \/ Quiet(CreateClass("S1"))
    \/ \E c \in RemoveClasses : Quiet(CreateHandle("h1", c))
    \/ \E obj \in TierFns : Logged(DescAppend("checkout", obj, "Base"))
    \/ \E c \in RemoveClasses : Logged(DescRemove("checkout", "A", c))
    \/ Logged(CollAppend("h1", "checkout", "A", FALSE))
    \/ Logged(CollRemove("h1", "checkout", "A"))
    \/ Quiet(Call("h1", "checkout", 0))

SpecRemove == Init /\ [][NextRemove]_vars

\* c is t or a (transitive) subclass of t, by the class declarations
RECURSIVE IsSubclass(_, _)
IsSubclass(c, t) ==
    c = t \/ \E i \in 1..Len(Bases[c]) : IsSubclass(Bases[c][i], t)

\* fn is registered by no recorded call after the j-th
NotRegisteredAfter(fn, j) ==
    \A k \in (j + 1)..Len(hist) :
        ~(/\ hist[k].obj = fn
          /\ hist[k].op \in {"cls_insert", "cls_append",
                             "inst_insert", "inst_append"})

\* the j-th recorded call is a remove(fn) on target t and event e
IsRemove(j, op, fn, t, e) ==
    /\ hist[j].op = op
    /\ hist[j].obj = fn
    /\ hist[j].target = t
    /\ hist[j].ev = e

\* C7 as claimed: once remove(fn) has been called on a target that held fn
\* (fn had been appended, once or more often), no later dispatch on that
\* target invokes fn from that target's tier.
C7_RemovedNeverFires ==
    last.op = "call" =>
        \A fn \in Listeners, j \in 1..Len(hist) :
            /\ (/\ IsRemove(j, "cls_remove", fn,
                            parent_cls[last.target], last.ev)
                /\ hist[j].n >= 1
                /\ NotRegisteredAfter(fn, j))
               => fn \notin Range(Tier(last.calls, "class"))
            /\ (/\ IsRemove(j, "inst_remove", fn, last.target, last.ev)
                /\ hist[j].n >= 1
                /\ NotRegisteredAfter(fn, j))
               => fn \notin Range(Tier(last.calls, "inst"))

\* C7: remove(fn) takes one occurrence of fn out of the target's sequence;
\* once remove(fn) has been called on a target whose sequence held fn
\* exactly once, no later dispatch on that target invokes fn from that
\* target's tier until fn is registered again.
C7_RemovedOnceNeverFires ==
    last.op = "call" =>
        \A fn \in Listeners, j \in 1..Len(hist) :
            /\ (/\ IsRemove(j, "cls_remove", fn,
                            parent_cls[last.target], last.ev)
                /\ hist[j].n = 1
                /\ NotRegisteredAfter(fn, j))
               => fn \notin Range(Tier(last.calls, "class"))
            /\ (/\ IsRemove(j, "inst_remove", fn, last.target, last.ev)
                /\ hist[j].n = 1
                /\ NotRegisteredAfter(fn, j))
               => fn \notin Range(Tier(last.calls, "inst"))

\* a dispatch that still invokes listeners after a class-level remove of
\* the only occurrence of another one
C7_Witness ==
    /\ last.op = "call"
    /\ last.calls # <<>>
    /\ \E fn \in Listeners, j \in 1..Len(hist) :
           /\ IsRemove(j, "cls_remove", fn, parent_cls[last.target], last.ev)
           /\ hist[j].n = 1
           /\ NotRegisteredAfter(fn, j)

\* -------------------------------------- specification: class-level removal
\* Classes created at any time, a listener appended to and removed from any
\* class.
NextClassRemove ==
    \/ \E c \in ClassIds : Quiet(CreateClass(c))
    \/ \E c \in ClassIds : Quiet(DescAppend("checkout", "A", c))
    \/ \E c \in ClassIds : Quiet(DescRemove("checkout", "A", c))

SpecClassRemove == Init /\ [][NextClassRemove]_vars

\* C8: a class-level remove(listener, targetClass) fails with the
\* not-found error whenever listener is absent from the sequence of
\* targetClass or of one of its current subclasses.
C8_RemoveAbsentRaises ==
    [][(/\ last'.op = "cls_remove"
        /\ \E c \in classes :
               /\ IsSubclass(c, last'.target)
               /\ last'.obj \notin Range(clslevel[last'.ev][c]))
       => last'.err = "ValueError"]_vars

\* the listener is in the target's sequence and the remove fails for a
\* subclass created after the registration
C8_Witness ==
    /\ last.op = "cls_remove"
    /\ last.err = "ValueError"
    /\ last.target = "Base"
    /\ last.n = 1
    /\ "S1" \in classes

\* ---------------------------------------- specification: subclass snapshot
\* Classes created at any time, listeners registered at class level on any
\* class, both recorded, and dispatch on an instance of any class.
NextSnapshot ==
    \/ \E c \in ClassIds : Logged(CreateClass(c))
    \/ \E c \in ClassIds : Logged(DescAppend("checkout", "A", c))
    \/ \E c \in ClassIds : Logged(DescInsert("checkout", "B", c))
    \/ \E c \in ClassIds : Quiet(CreateHandle("h1", c))
    \/ Quiet(Call("h1", "checkout", 0))

SpecSnapshot == Init /\ [][NextSnapshot]_vars

\* class c existed when the j-th recorded call was made
ExistedAt(c, j) ==
    c = "Base" \/ \E i \in 1..(j - 1) :
                          hist[i].op = "class" /\ hist[i].target = c

\* the j-th recorded call registered fn at class level on a class of which
\* c was then a subclass (or which is c)
ReachedBy(c, fn, e, j) ==
    /\ hist[j].op \in {"cls_insert", "cls_append"}
    /\ hist[j].obj = fn
    /\ hist[j].ev = e
    /\ IsSubclass(c, hist[j].target)
    /\ ExistedAt(c, j)

\* C10: a dispatch on an instance of class c invokes listener L exactly
\* when some class-level registration of L was made on c or on an ancestor
\* of c at a moment when c already existed; a registration made on a base
\* class before c was created does not deliver L to instances of c.
C10_SnapshotPropagation ==
    (last.op = "call" /\ last.err = "none") =>
        \A fn \in Listeners :
            fn \in Range(Fns(last.calls))
            <=> \E j \in 1..Len(hist) :
                    ReachedBy(parent_cls[last.target], fn, last.ev, j)

\* a dispatch on an S1 instance invokes A registered on Base ...
C10_Witness ==
    /\ last.op = "call"
    /\ Len(hist) = 3
    /\ hist[1].op = "class" /\ hist[1].target = "S1"
    /\ hist[2].op = "cls_append" /\ hist[2].target = "Base"
    /\ hist[3].op = "class" /\ hist[3].target = "S2"
    /\ parent_cls[last.target] = "S1"
    /\ Fns(last.calls) = <<"A">>

\* ... and a dispatch on an instance of S2, created afterwards, does not
C10_WitnessLater ==
    /\ last.op = "call"
    /\ Len(hist) = 3
    /\ hist[1].op = "class" /\ hist[1].target = "S1"
    /\ hist[2].op = "cls_append" /\ hist[2].target = "Base"
    /\ hist[3].op = "class" /\ hist[3].target = "S2"
    /\ parent_cls[last.target] = "S2"
    /\ clslevel["checkout"]["S1"] = <<"A">>
    /\ last.calls = <<>>

\* ------------------------------------------- specification: live alias
\* Class-level insert, append, remove and clear on a class and its subclass
\* interleaved with dispatches on one handle, all recorded.
NextAlias ==
    \/ Quiet(CreateClass("S1"))
    \/ \E c \in RemoveClasses : Quiet(CreateHandle("h1", c))
    \/ \E c \in RemoveClasses : Logged(DescAppend("checkout", "A", c))
    \/ Logged(DescInsert("checkout", "B", "Base"))
    \/ \E c \in RemoveClasses : Logged(DescRemove("checkout", "A", c))
    \/ Logged(DescClear("checkout"))
    \/ Logged(Call("h1", "checkout", 0))

SpecAlias == Init /\ [][NextAlias]_vars

\* the j-th recorded call is a dispatch on the collection of h and e
IsCall(j, h, e) ==
    hist[j].op = "call" /\ hist[j].target = h /\ hist[j].ev = e

\* C11: a collection that has been materialized dispatches over the
\* registry's current sequence for the owner's class: whatever class-level
\* insert, append, remove and clear calls were made since, a dispatch on it
\* invokes exactly the listeners the registry now holds for that class.
C11_LiveClassSequence ==
    (/\ last.op = "call"
     /\ last.err = "none"
     /\ parent_listeners[last.target][last.ev] # None)
    => Tier(last.calls, "class") = clslevel[last.ev][parent_cls[last.target]]

\* materialized by a dispatch over the empty sequence; a listener added and
\* the registry cleared afterwards are seen by the next dispatches
C11_Witness ==
    /\ Len(hist) = 4
    /\ IsCall(1, "h1", "checkout") /\ hist[1].calls = <<>>
    /\ hist[2].op = "cls_append" /\ hist[2].target = "Base"
    /\ IsCall(3, "h1", "checkout") /\ Fns(hist[3].calls) = <<"A">>
    /\ hist[4].op = "cls_clear"
    /\ parent_cls["h1"] = "S1"
    /\ last.op = "cls_clear"

\* ----------------------------------------- specification: failed dispatch
\* Dispatches in which any one of the invoked listeners may raise, over
\* class-level and instance-owned listeners.
NextFail ==
    \/ Quiet(CreateHandle("h1", "Base"))
    \/ \E obj \in TierFns : Quiet(DescAppend("checkout", obj, "Base"))
    \/ \E obj \in TierFns : Quiet(CollAppend("h1", "checkout", obj, FALSE))
    \/ \E failAt \in 0..(MaxLen + 2) : Quiet(Call("h1", "checkout", failAt))

SpecFail == Init /\ [][NextFail]_vars

\* the combined order of the collection of h and e in the current state
Combined(h, e) ==
    Tag("class", clslevel[e][parent_cls[h]]) \o Tag("inst", listeners[h][e])

\* C12: when the n-th listener of the combined order fails during a call,
\* the call raises to the caller, the invocations made are exactly the
\* first n entries of the combined order, each once and in order (none of
\* the entries after the failing one), and the class-level and
\* instance-owned sequences and the propagate sets are left unchanged.
C12_FailureAbortsDispatch ==
    [][(last'.op = "call" /\ last'.n > 0) =>
         /\ last'.err = "raised"
         /\ last'.n <= Len(Combined(last'.target, last'.ev))
         /\ last'.calls =
              SubSeq(Combined(last'.target, last'.ev), 1, last'.n)
         /\ clslevel' = clslevel
         /\ listeners' = listeners
         /\ propagate' = propagate]_vars

\* the second class-level listener fails with a third class-level listener
\* and an instance-owned listener still to come
C12_Witness ==
    /\ last.op = "call" /\ last.err = "raised" /\ last.n = 2
    /\ Len(clslevel["checkout"]["Base"]) = 3
    /\ Len(listeners["h1"]["checkout"]) = 1
    /\ Len(last.calls) = 2

\* ------------------------------------------- specification: reconstruction
\* A handle with instance-level listeners, flagged or not, on both events is
\* reconstructed from its owner class; the new handle dispatches.
NextPickle ==
    \/ Quiet(CreateClass("S1"))
    \/ \E c \in RemoveClasses : Quiet(CreateHandle("h1", c))
    \/ \E c \in RemoveClasses : Quiet(DescAppend("checkout", "A", c))
    \/ \E e \in Events, p \in BOOLEAN : Quiet(CollAppend("h1", e, "B", p))
    \/ Quiet(ExecOnce("h1", "checkout", 0))
    \/ Quiet(Reconstruct("h1", "h2"))
    \/ \E e \in Events : Quiet(Call("h2", e, 0))

SpecPickle == Init /\ [][NextPickle]_vars

\* C13: the handle reconstructed from a handle's owner class is bound to
\* the same class, and for every event its instance-owned sequence and its
\* propagate set are empty and its once-flag unset, whatever the original
\* handle held; a dispatch on it invokes exactly the current class-level
\* listeners of that class.
C13_ReconstructIsFreshAndLive ==
    [][/\ last'.op = "reconstruct" =>
            /\ parent_cls'[last'.target] = parent_cls[last'.obj]
            /\ \A e \in Events :
                  /\ listeners'[last'.target][e] = <<>>
                  /\ propagate'[last'.target][e] = {}
                  /\ exec_once'[last'.target][e] = FALSE
       /\ (last'.op = "call" /\ last'.target = "h2") =>
            Fns(last'.calls) = clslevel[last'.ev][parent_cls["h1"]]]_vars

\* the original held a flagged instance-level listener and had run once;
\* the reconstructed handle dispatches the class-level listener alone
C13_Witness ==
    /\ last.op = "call" /\ last.target = "h2" /\ last.ev = "checkout"
    /\ Fns(last.calls) = <<"A">>
    /\ parent_cls["h2"] = "S1"
    /\ listeners["h1"]["checkout"] = <<"B">>
    /\ propagate["h1"]["checkout"] = {"B"}
    /\ exec_once["h1"]["checkout"]

\* --------------------------------------------- specification: two threads
\* Two threads each make one exec_once call on the collection of h1 and
\* checkout; their steps interleave freely.
NextRace ==
    \/ Quiet(CreateHandle("h1", "Base"))
    \/ \E obj \in TierFns : Quiet(DescAppend("checkout", obj, "Base"))
    \/ \E t \in Threads : OnceGuard(t, "h1", "checkout") /\ UNCHANGED hist
    \/ \E t \in Threads, f \in 0..MaxLen :
           Traced(OnceCall(t, "h1", "checkout", f))
    \/ \E t \in Threads : OnceSet(t, "h1", "checkout") /\ UNCHANGED hist

SpecRace == Init /\ [][NextRace]_vars

\* C14: the guard of exec_once is a read followed, after the call, by a
\* set: as long as no thread has completed its call and set the flag, the
\* flag is unset, also while a thread that passed the guard is calling the
\* listeners, so a second thread passes the guard too (C14_Witness: both
\* threads have run the listeners).
C14_GuardIsReadThenSet ==
    (\A t \in Threads : pc[t] # "done") =>
        ~exec_once["h1"]["checkout"]

\* both threads passed the guard before either set the flag, and each has
\* run the listener
C14_Witness ==
    /\ pc = [t \in Threads |-> "called"]
    /\ ~exec_once["h1"]["checkout"]
    /\ Len(hist) = 2
    /\ \A j \in 1..2 : /\ hist[j].op = "once_call"
                       /\ Fns(hist[j].calls) = <<"A">>
    /\ hist[1].obj # hist[2].obj

\* ------------------------------------------ specification: invalid target
\* Class-level insert and append with class targets and with an instance
\* as the target.
NextTarget ==
    \/ Quiet(CreateClass("S1"))
    \/ \E obj \in TierFns, target \in RemoveClasses \cup Instances :
           Quiet(DescInsert("checkout", obj, target))
    \/ \E obj \in TierFns, target \in RemoveClasses \cup Instances :
           Quiet(DescAppend("checkout", obj, target))

SpecTarget == Init /\ [][NextTarget]_vars

\* C15: a class-level insert or append whose target is not a class fails
\* with the assertion error on the target and leaves the sequence of every
\* class, for every event, as it was.
C15_NonClassTargetRejected ==
    [][(last'.op \in {"cls_insert", "cls_append"}
        /\ ~IsType(last'.target)) =>
          /\ last'.err = "AssertionError"
          /\ clslevel' = clslevel]_vars

\* an append on an instance was rejected while the registry held listeners
C15_Witness ==
    /\ last.op = "cls_append" /\ last.target = "pool1"
    /\ last.err = "AssertionError"
    /\ clslevel["checkout"]["Base"] = <<"B", "A">>
    /\ clslevel["checkout"]["S1"] = <<"A">>

\* ------------------------------------------ specification: instance clear
\* Two handles with instance-level listeners on both events; the collection
\* of h1 and checkout is run once, cleared and dispatched.
NextClear ==
    \/ \E h \in Handles : Quiet(CreateHandle(h, "Base"))
    \/ Quiet(DescAppend("checkout", "A", "Base"))
    \/ \E p \in BOOLEAN : Quiet(CollAppend("h1", "checkout", "B", p))
    \/ Quiet(CollAppend("h1", "connect", "B", FALSE))
    \/ Quiet(CollAppend("h2", "checkout", "B", TRUE))
    \/ Quiet(ExecOnce("h1", "checkout", 0))
    \/ Quiet(CollClear("h1", "checkout"))
    \/ Quiet(Call("h1", "checkout", 0))

SpecClear == Init /\ [][NextClear]_vars

\* C16: an instance-level clear empties the instance-owned sequence and the
\* propagate set of its collection and changes nothing else: the class-level
\* sequences, the once-flags and the sequences and propagate sets of every
\* other collection are as before; a dispatch right after the clear invokes
\* exactly the class-level listeners.
C16_ClearFrame ==
    [][/\ last'.op = "inst_clear" =>
            /\ listeners'[last'.target][last'.ev] = <<>>
            /\ propagate'[last'.target][last'.ev] = {}
            /\ clslevel' = clslevel
            /\ exec_once' = exec_once
            /\ \A h \in Handles, e \in Events :
                  <<h, e>> # <<last'.target, last'.ev>> =>
                      /\ listeners'[h][e] = listeners[h][e]
                      /\ propagate'[h][e] = propagate[h][e]
       /\ (/\ last.op = "inst_clear" /\ last'.op = "call"
           /\ last'.target = last.target /\ last'.ev = last.ev) =>
              last'.calls =
                 Tag("class", clslevel[last.ev][parent_cls[last.target]])
      ]_vars

\* a collection holding a flagged listener that had run once is cleared,
\* while the class and the other collections keep their listeners
C16_Witness ==
    /\ last.op = "inst_clear" /\ last.n = 1
    /\ last.target = "h1" /\ last.ev = "checkout"
    /\ exec_once["h1"]["checkout"]
    /\ clslevel["checkout"]["Base"] = <<"A">>
    /\ listeners["h1"]["connect"] = <<"B">>
    /\ propagate["h2"]["checkout"] = {"B"}

\* ------------------------------------- specification: registration frame
\* Class-level append on a subclass for one event and insert on its
\* sibling for the other, with a listener on the root class, an
\* instance-level listener and dispatches on an instance of the root class.
FrameClasses == {"S1", "S2"}

NextFrame ==
    \/ \E c \in FrameClasses : Quiet(CreateClass(c))
    \/ Quiet(CreateHandle("h1", "Base"))
    \/ Quiet(DescAppend("checkout", "B", "Base"))
    \/ Quiet(DescAppend("checkout", "A", "S1"))
    \/ Quiet(DescInsert("connect", "A", "S2"))
    \/ Quiet(CollAppend("h1", "checkout", "C", TRUE))
    \/ Quiet(Call("h1", "checkout", 0))

SpecFrame == Init /\ [][NextFrame]_vars

\* C17: a class-level insert or append of a listener on class C for event
\* E leaves unchanged the sequence of every class that is not C or a
\* subclass of C (ancestors and unrelated classes), every sequence of every
\* other event, and all instance-owned sequences and propagate sets; a
\* dispatch on an instance of an ancestor (Base, where A is never
\* registered) does not invoke the listener.
C17_RegistrationFrame ==
    [][/\ (last'.op \in {"cls_insert", "cls_append"}
           /\ last'.err = "none") =>
            /\ \A c \in ClassIds :
                  ~IsSubclass(c, last'.target) =>
                      clslevel'[last'.ev][c] = clslevel[last'.ev][c]
            /\ \A e \in Events \ {last'.ev} : clslevel'[e] = clslevel[e]
            /\ listeners' = listeners
            /\ propagate' = propagate
       /\ (last'.op = "call" /\ parent_cls[last'.target] = "Base") =>
            "A" \notin Range(Fns(last'.calls))]_vars

\* A was registered on S1 while its sibling S2, a listener on Base and an
\* instance-owned listener existed; Base, S2 and the other event are
\* untouched
C17_Witness ==
    /\ last.op = "cls_append" /\ last.target = "S1" /\ last.ev = "checkout"
    /\ clslevel["checkout"]["Base"] = <<"B">>
    /\ clslevel["checkout"]["S2"] = <<"B">>
    /\ clslevel["checkout"]["S1"] = <<"B", "A">>
    /\ clslevel["connect"]["S1"] = <<>>
    /\ clslevel["connect"]["S2"] = <<"A">>
    /\ listeners["h1"]["checkout"] = <<"C">>

\* ------------------------------------------------ specification: diamond
\* Class-level registrations on the root and on one parent of a class with
\* two parents, and dispatches on an instance of that class.
NextDiamond ==
    \/ \E c \in ClassIds : Quiet(CreateClass(c))
    \/ Quiet(CreateHandle("h1", "D"))
    \/ \E c \in RemoveClasses : Quiet(DescAppend("checkout", "A", c))
    \/ Quiet(DescInsert("checkout", "B", "Base"))
    \/ Quiet(Call("h1", "checkout", 0))

SpecDiamond == Init /\ [][NextDiamond]_vars

\* C18: one class-level insert or append on class C adds exactly one
\* occurrence of the listener to the sequence of every existing class in
\* C's subclass tree, whatever the number of subclass paths leading to it.
\* (Violated: the traversal visits a class once per path, see
\* C18_TwicePerRegistration.)
C18_OneOccurrencePerRegistration ==
    [][(last'.op \in {"cls_insert", "cls_append"}
        /\ last'.err = "none") =>
          \A c \in classes :
              IsSubclass(c, last'.target) =>
                  Count(last'.obj, clslevel'[last'.ev][c]) =
                      Count(last'.obj, clslevel[last'.ev][c]) + 1]_vars

\* the only registration so far was one append of A on Base, and the
\* dispatch on an instance of D has invoked A twice
C18_TwicePerRegistration ==
    /\ last.op = "call" /\ parent_cls[last.target] = "D"
    /\ Fns(last.calls) = <<"A", "A">>
    /\ clslevel["checkout"]["Base"] = <<"A">>
    /\ clslevel["checkout"]["S1"] = <<"A">>
    /\ clslevel["checkout"]["S2"] = <<"A">>

\* ---------------------------------------- specification: propagate flags
\* Every instance-level operation on the checkout collections of two
\* handles, and updates between the handles with either flag.
NextFlags ==
    \/ \E h \in Handles : Quiet(CreateHandle(h, "Base"))
    \/ \E h \in Handles, obj \in TierFns, p \in BOOLEAN :
           Quiet(CollInsert(h, "checkout", obj, p))
    \/ \E h \in Handles, obj \in TierFns, p \in BOOLEAN :
           Quiet(CollAppend(h, "checkout", obj, p))
    \/ \E h \in Handles, obj \in TierFns :
           Quiet(CollRemove(h, "checkout", obj))
    \/ \E h \in Handles : Quiet(CollClear(h, "checkout"))
    \/ \E h, o \in Handles, p \in BOOLEAN : Quiet(DispatchUpdate(h, o, p))

SpecFlags == Init /\ [][NextFlags]_vars

\* C19: in every state reached by instance-level insert, append, remove,
\* clear and update, the propagate set of every collection holds only
\* listeners of that collection's instance-owned sequence.
C19_PropagateWithinListeners ==
    \A h \in Handles, e \in Events :
        propagate[h][e] \subseteq Range(listeners[h][e])

\* an update with only_propagate has just brought a flagged listener into
\* a collection that already held an unflagged one
C19_Witness ==
    /\ last.op = "update" /\ last.flag /\ last.target = "h1"
    /\ propagate["h1"]["checkout"] = {"A"}
    /\ listeners["h1"]["checkout"] = <<"B", "A">>
    /\ propagate["h2"]["checkout"] = {"A"}

\* C20: a class-level remove that fails with the not-found error leaves
\* the sequence of every class as it was before the call. (Violated: the
\* lists visited before the failing one stay changed, see
\* C20_PartialRemoval.)
C20_FailedRemoveChangesNothing ==
    [][(last'.op = "cls_remove" /\ last'.err = "ValueError")
       => clslevel' = clslevel]_vars

\* the remove on Base failed at S1, created after the registration, and
\* the listener is gone from the sequence of Base
C20_PartialRemoval ==
    /\ last.op = "cls_remove" /\ last.err = "ValueError"
    /\ last.target = "Base" /\ last.n = 1
    /\ "S1" \in classes
    /\ clslevel["checkout"]["Base"] = <<>>

====
